---- MODULE Spec2Model ----
(***************************************************************************)
(* Model of CollatzTree (src/collatz.py): a successor dict collatz_tree,   *)
(* a memo dict paths of full sequences down to 1, and the pickle file      *)
(* persistence.  Python dicts keep insertion order, so a dict is modelled  *)
(* as a sequence of <<key, value>> pairs with unique keys.                 *)
(*                                                                         *)
(* op, arg and ret record the last method called, its argument and the     *)
(* value it returned; repeat tells that the call before it was the same    *)
(* method with the same argument.  saved remembers, for each file name,    *)
(* the two dicts as they were when save_list wrote the file.  ch and loop  *)
(* are the command variable and the position of the command loop of        *)
(* src/collatz_menu.py.                                                    *)
(***************************************************************************)
EXTENDS Integers, Sequences, FiniteSets, TLC

VARIABLES collatz_tree, steps_to_one, paths, verbose, files, op, arg, ret, repeat,
          saved, ch, loop

vars == <<collatz_tree, steps_to_one, paths, verbose, files, op, arg, ret, repeat,
         saved, ch, loop>>

(* ---- bounds of the model: the largest argument of each group of calls ---- *)
MaxN == 4
MaxFill == 4
MaxSteps == 6
MaxIO == 3
\* arguments of the runs with paths of equal length: the numbers up to MaxTie
\* whose sequence has at most TieLen numbers (5 and 32 both have 6)
MaxTie == 32
TieLen == 6
\* the longest line typed at a prompt of the command loop
MaxText == 1
\* arguments of the runs with non-positive numbers: -MaxNeg..MaxPos
MaxNeg == 1
MaxPos == 2

NumArgs == 1..MaxN
FillArgs == 1..MaxFill
StepsArgs == 1..MaxSteps
IOArgs == 1..MaxIO
AnyArgs == (0 - MaxNeg)..MaxPos

(* ---- Python dict primitives ---- *)
DictKeys(d) == {d[i][1] : i \in 1..Len(d)}

DictHas(d, k) == \E i \in 1..Len(d) : d[i][1] = k

DictGet(d, k) == d[CHOOSE i \in 1..Len(d) : d[i][1] = k][2]

DictSet(d, k, v) ==
    IF DictHas(d, k)
    THEN [i \in 1..Len(d) |-> IF d[i][1] = k THEN <<k, v>> ELSE d[i]]
    ELSE Append(d, <<k, v>>)

\* position of key k in the insertion order of d
DictIndex(d, k) == CHOOSE i \in 1..Len(d) : d[i][1] = k

\* the value of a method that returns nothing
None == "None"

(* ---- persistence ---- *)
DEFAULT_FILENAME == "collatz_pickle"
OtherFilename == "other_pickle"
FileNames == {DEFAULT_FILENAME, OtherFilename}

\* content of a name under which no file exists; a pickle stream is never empty
NoFile == <<>>
NotFoundMessage == "does not exist yet."
Loaded == "loaded"

\* The pickle stream of the tuple (collatz_tree, paths), as a flat sequence of
\* integers: a dict is its length followed by its items in insertion order,
\* a list is its length followed by its elements.
RECURSIVE dump_tree(_)
dump_tree(d) ==
    IF d = <<>> THEN <<>>
    ELSE <<d[1][1], d[1][2]>> \o dump_tree(Tail(d))

RECURSIVE dump_paths(_)
dump_paths(d) ==
    IF d = <<>> THEN <<>>
    ELSE <<d[1][1], Len(d[1][2])>> \o d[1][2] \o dump_paths(Tail(d))

pickle_dump(tree, ps) ==
    <<Len(tree)>> \o dump_tree(tree) \o <<Len(ps)>> \o dump_paths(ps)

RECURSIVE load_tree(_, _, _)
load_tree(blob, pos, count) ==
    IF count = 0 THEN <<>>
    ELSE << <<blob[pos], blob[pos + 1]>> >> \o load_tree(blob, pos + 2, count - 1)

RECURSIVE load_paths(_, _, _)
load_paths(blob, pos, count) ==
    IF count = 0 THEN <<>>
    ELSE << <<blob[pos], SubSeq(blob, pos + 2, pos + 1 + blob[pos + 1])>> >>
         \o load_paths(blob, pos + 2 + blob[pos + 1], count - 1)

pickle_load(blob) ==
    <<load_tree(blob, 2, blob[1]),
      load_paths(blob, 2 * blob[1] + 3, blob[2 * blob[1] + 2])>>

(* ---- the uncached computation: the numbers collatz(n) prints, in order ---- *)
RECURSIVE collatz(_)
collatz(n) ==
    IF n > 1
    THEN <<n>> \o collatz(IF n % 2 = 0 THEN n \div 2 ELSE 3 * n + 1)
    ELSE <<n>>

TieArgs == {n \in 1..MaxTie : Len(collatz(n)) <= TieLen}

(* ---- add ---- *)
\* mutant: the membership test of the advanced n runs before the entry is stored
RECURSIVE add_loop_break_first(_, _)
add_loop_break_first(tree, n) ==
    IF n > 1
    THEN LET next_ == IF n % 2 = 0 THEN n \div 2 ELSE 3 * n + 1
         IN  IF DictHas(tree, next_) THEN tree
             ELSE add_loop_break_first(DictSet(tree, n, next_), next_)
    ELSE tree

\* mutant: the loop tests its condition after the body (do ... while n > 1)
RECURSIVE add_loop_do_while(_, _)
add_loop_do_while(tree, n) ==
    LET next_ == IF n % 2 = 0 THEN n \div 2 ELSE 3 * n + 1
        t2 == DictSet(tree, n, next_)
    IN  IF DictHas(t2, next_) \/ next_ <= 1 THEN t2 ELSE add_loop_do_while(t2, next_)

\* the while loop of add, from the current n
RECURSIVE add_loop(_, _)
add_loop(tree, n) ==
    IF n > 1
    THEN LET next_ == IF n % 2 = 0 THEN n \div 2 ELSE 3 * n + 1
             t2 == DictSet(tree, n, next_)
         IN  IF DictHas(t2, next_) THEN t2 ELSE add_loop(t2, next_)
    ELSE tree

\* mutant: the loop has no break and runs down to 1
RECURSIVE add_visited_no_break(_, _)
add_visited_no_break(tree, n) ==
    IF n > 1
    THEN LET next_ == IF n % 2 = 0 THEN n \div 2 ELSE 3 * n + 1
         IN  <<n>> \o add_visited_no_break(DictSet(tree, n, next_), next_)
    ELSE <<>>

\* the values of n for which the while loop of add computes next_, in order
RECURSIVE add_visited(_, _)
add_visited(tree, n) ==
    IF n > 1
    THEN LET next_ == IF n % 2 = 0 THEN n \div 2 ELSE 3 * n + 1
             t2 == DictSet(tree, n, next_)
         IN  IF DictHas(t2, next_) THEN <<n>> ELSE <<n>> \o add_visited(t2, next_)
    ELSE <<>>

\* collatz_tree after add(n)
add_tree(tree, n) == IF DictHas(tree, n) THEN tree ELSE add_loop(tree, n)

(* ---- fill_path ---- *)
\* mutant: the else is missing, next_ is appended and its path spliced as well
RECURSIVE walk_dup(_, _, _, _)
walk_dup(tree, ps, path, n) ==
    IF n > 1
    THEN LET next_ == DictGet(tree, n)
         IN  IF DictHas(ps, next_)
             THEN Append(path, next_) \o DictGet(ps, next_)
             ELSE walk_dup(tree, ps, Append(path, next_), next_)
    ELSE path

\* mutant: combining appends next_ alone, not its memoized path
RECURSIVE walk_splice_head(_, _, _, _)
walk_splice_head(tree, ps, path, n) ==
    IF n > 1
    THEN LET next_ == DictGet(tree, n)
         IN  IF DictHas(ps, next_)
             THEN Append(path, next_)
             ELSE walk_splice_head(tree, ps, Append(path, next_), next_)
    ELSE path

\* the forward walk of fill_path: the path built from the current n
RECURSIVE walk(_, _, _, _)
walk(tree, ps, path, n) ==
    IF n > 1
    THEN LET next_ == DictGet(tree, n)
         IN  IF DictHas(ps, next_)
             THEN path \o DictGet(ps, next_)
             ELSE walk(tree, ps, Append(path, next_), next_)
    ELSE path

\* the forward walk of fill_path from n finds every key it looks up in tree
\* and leaves its loop by the break after combining with a memoized path
RECURSIVE walk_safe(_, _, _)
walk_safe(tree, ps, n) ==
    IF n > 1
    THEN /\ DictHas(tree, n)
         /\ LET next_ == DictGet(tree, n)
            IN  IF DictHas(ps, next_) THEN TRUE ELSE walk_safe(tree, ps, next_)
    ELSE FALSE

\* mutant: every new number is given the whole path, not its own suffix
RECURSIVE backfill_whole(_, _, _)
backfill_whole(ps, path, i) ==
    IF i > Len(path) THEN ps
    ELSE IF DictHas(ps, path[i]) THEN ps
    ELSE backfill_whole(DictSet(ps, path[i], path), path, i + 1)

\* mutant: only the first number of the path gets an entry
backfill_first_only(ps, path, i) ==
    IF DictHas(ps, path[1]) THEN ps ELSE DictSet(ps, path[1], path)

\* the backfill loop of fill_path, from position i of path (1-based)
RECURSIVE backfill(_, _, _)
backfill(ps, path, i) ==
    IF i > Len(path) THEN ps
    ELSE IF DictHas(ps, path[i]) THEN ps
    ELSE backfill(DictSet(ps, path[i], SubSeq(path, i, Len(path))), path, i + 1)

\* mutant: the splice aliases the memoized list of next_ and inserts n at its
\* front (path = self.paths[next_]; path.insert(0, n)), so that entry changes
fill_path_alias(tree, ps, n) ==
    LET t1 == IF ~DictHas(tree, n) THEN add_tree(tree, n) ELSE tree
    IN  IF DictHas(ps, n) THEN <<t1, ps>>
        ELSE IF n > 1 /\ DictHas(ps, DictGet(t1, n))
        THEN LET next_ == DictGet(t1, n)
                 path == <<n>> \o DictGet(ps, next_)
             IN  <<t1, DictSet(DictSet(ps, next_, path), n, path)>>
        ELSE <<t1, backfill(ps, walk(t1, ps, <<n>>, n), 1)>>

\* mutant: as fill_path_alias, and the early return for a filled n is missing
fill_path_alias_refill(tree, ps, n) ==
    LET t1 == IF ~DictHas(tree, n) THEN add_tree(tree, n) ELSE tree
    IN  IF n > 1 /\ DictHas(ps, DictGet(t1, n))
        THEN LET next_ == DictGet(t1, n)
                 path == <<n>> \o DictGet(ps, next_)
             IN  <<t1, DictSet(DictSet(ps, next_, path), n, path)>>
        ELSE IF DictHas(ps, n) THEN <<t1, ps>>
        ELSE <<t1, backfill(ps, walk(t1, ps, <<n>>, n), 1)>>

\* mutant: the walk shortens the chain, the entry of n is pointed at 1
fill_path_compress(tree, ps, n) ==
    LET t1 == IF ~DictHas(tree, n) THEN add_tree(tree, n) ELSE tree
    IN  IF DictHas(ps, n) THEN <<t1, ps>>
        ELSE <<DictSet(t1, n, 1), backfill(ps, walk(t1, ps, <<n>>, n), 1)>>

\* <<collatz_tree, paths>> after fill_path(n)
fill_path_state(tree, ps, n) ==
    LET t1 == IF ~DictHas(tree, n) THEN add_tree(tree, n) ELSE tree
    IN  IF DictHas(ps, n) THEN <<t1, ps>>
        ELSE <<t1, backfill(ps, walk(t1, ps, <<n>>, n), 1)>>

(* ---- get_path, get_steps_to_one: the state after their add and fill_path ---- *)
get_path_state(tree, ps, n) ==
    LET t1 == IF ~DictHas(tree, n) THEN add_tree(tree, n) ELSE tree
    IN  IF ~DictHas(ps, n) THEN fill_path_state(t1, ps, n) ELSE <<t1, ps>>

(* ---- fill_all_paths ---- *)
\* mutant: a key that is already filled ends the loop instead of being skipped
RECURSIVE fill_all_loop_break(_, _, _)
fill_all_loop_break(tree, ps, i) ==
    IF i > Len(tree) THEN <<tree, ps>>
    ELSE LET n == tree[i][1]
         IN  IF DictHas(ps, n) THEN <<tree, ps>>
             ELSE LET s == fill_path_state(tree, ps, n)
                  IN  fill_all_loop_break(s[1], s[2], i + 1)

\* the for loop of fill_all_paths over the keys of collatz_tree, from the i-th
RECURSIVE fill_all_loop(_, _, _)
fill_all_loop(tree, ps, i) ==
    IF i > Len(tree) THEN <<tree, ps>>
    ELSE LET n == tree[i][1]
             s == IF ~DictHas(ps, n) THEN fill_path_state(tree, ps, n) ELSE <<tree, ps>>
         IN  fill_all_loop(s[1], s[2], i + 1)

fill_all_paths_state(tree, ps) == fill_all_loop(tree, ps, 1)

\* the numbers n the for loop of fill_all_paths takes, from the i-th key on
RECURSIVE fill_all_visited(_, _, _)
fill_all_visited(tree, ps, i) ==
    IF i > Len(tree) THEN <<>>
    ELSE LET n == tree[i][1]
             s == IF ~DictHas(ps, n) THEN fill_path_state(tree, ps, n) ELSE <<tree, ps>>
         IN  <<n>> \o fill_all_visited(s[1], s[2], i + 1)

(* ---- get_longest_path ---- *)
\* mutant: reverse=True is missing, the list is sorted by ascending length
RECURSIVE insert_sorted_asc(_, _)
insert_sorted_asc(sorted_, x) ==
    IF sorted_ = <<>> THEN <<x>>
    ELSE IF Head(sorted_)[2] <= x[2]
         THEN <<Head(sorted_)>> \o insert_sorted_asc(Tail(sorted_), x)
         ELSE <<x>> \o sorted_

\* mutant: an ascending sort read backwards (sorted(...)[::-1]): among items of
\* equal length the later one comes first
RECURSIVE insert_sorted_backwards(_, _)
insert_sorted_backwards(sorted_, x) ==
    IF sorted_ = <<>> THEN <<x>>
    ELSE IF Head(sorted_)[2] > x[2]
         THEN <<Head(sorted_)>> \o insert_sorted_backwards(Tail(sorted_), x)
         ELSE <<x>> \o sorted_

\* sorted(..., key=lambda x: x[1], reverse=True) is a stable sort by descending
\* length: item x goes after every item at least as long
RECURSIVE insert_sorted(_, _)
insert_sorted(sorted_, x) ==
    IF sorted_ = <<>> THEN <<x>>
    ELSE IF Head(sorted_)[2] >= x[2]
         THEN <<Head(sorted_)>> \o insert_sorted(Tail(sorted_), x)
         ELSE <<x>> \o sorted_

RECURSIVE sorted_by_len(_, _)
sorted_by_len(items, i) ==
    IF i = 0 THEN <<>>
    ELSE insert_sorted(sorted_by_len(items, i - 1), items[i])

\* index of get_longest_path: the key of the first item of the sorted zip
longest_index(ps) ==
    LET items == [i \in 1..Len(ps) |-> <<ps[i][1], Len(ps[i][2])>>]
    IN  sorted_by_len(items, Len(items))[1][1]

(* ---- fill ---- *)
\* mutant: an if in place of the while, only n itself is added
fill_tree_once(tree, n) ==
    IF n > 1
    THEN IF DictHas(tree, n) THEN tree ELSE add_tree(tree, n)
    ELSE tree

\* collatz_tree after fill(n)
RECURSIVE fill_tree(_, _)
fill_tree(tree, n) ==
    IF n > 1
    THEN fill_tree(IF DictHas(tree, n) THEN tree ELSE add_tree(tree, n), n - 1)
    ELSE tree

(* ---- initial state and actions ---- *)
Init ==
    /\ collatz_tree = << <<1, 4>> >>
    /\ steps_to_one = << <<1, 0>> >>
    /\ paths = << <<1, <<1>> >> >>
    /\ verbose = TRUE
    /\ files = [f \in FileNames |-> NoFile]
    /\ op = "init"
    /\ arg = 0
    /\ ret = None
    /\ repeat = FALSE
    /\ saved = [f \in FileNames |-> NoFile]
    /\ ch = ""
    /\ loop = "menu"

Called(name, a, r) ==
    /\ op' = name
    /\ arg' = a
    /\ ret' = r
    /\ repeat' = (op = name /\ arg = a)
    /\ UNCHANGED <<steps_to_one, verbose, ch, loop>>

\* mutant: add goes on to memoize the path of n, as fill_path does
add_fills(n) ==
    LET s == fill_path_state(collatz_tree, paths, n)
    IN  /\ collatz_tree' = s[1]
        /\ paths' = s[2]
        /\ UNCHANGED <<files, saved>>
        /\ Called("add", n, None)

add(n) ==
    /\ collatz_tree' = add_tree(collatz_tree, n)
    /\ UNCHANGED <<paths, files, saved>>
    /\ Called("add", n, None)

fill_path(n) ==
    LET s == fill_path_state(collatz_tree, paths, n)
    IN  /\ collatz_tree' = s[1]
        /\ paths' = s[2]
        /\ UNCHANGED <<files, saved>>
        /\ Called("fill_path", n, None)

get_path(n) ==
    LET s == get_path_state(collatz_tree, paths, n)
    IN  /\ collatz_tree' = s[1]
        /\ paths' = s[2]
        /\ UNCHANGED <<files, saved>>
        /\ Called("get_path", n, DictGet(s[2], n))

get_longest_path ==
    LET s == fill_all_paths_state(collatz_tree, paths)
    IN  /\ collatz_tree' = s[1]
        /\ paths' = s[2]
        /\ UNCHANGED <<files, saved>>
        /\ Called("get_longest_path", 0, DictGet(s[2], longest_index(s[2])))

fill_all_paths ==
    LET s == fill_all_paths_state(collatz_tree, paths)
    IN  /\ collatz_tree' = s[1]
        /\ paths' = s[2]
        /\ UNCHANGED <<files, saved>>
        /\ Called("fill_all_paths", 0, None)

\* mutant: the path's length is returned, without the - 1
get_steps_to_one_len(n) ==
    LET s == get_path_state(collatz_tree, paths, n)
    IN  /\ collatz_tree' = s[1]
        /\ paths' = s[2]
        /\ UNCHANGED <<files, saved>>
        /\ Called("get_steps_to_one", n, Len(DictGet(s[2], n)))

get_steps_to_one(n) ==
    LET s == get_path_state(collatz_tree, paths, n)
    IN  /\ collatz_tree' = s[1]
        /\ paths' = s[2]
        /\ UNCHANGED <<files, saved>>
        /\ Called("get_steps_to_one", n, Len(DictGet(s[2], n)) - 1)

fill(n) ==
    /\ collatz_tree' = fill_tree(collatz_tree, n)
    /\ UNCHANGED <<paths, files, saved>>
    /\ Called("fill", n, None)

save_list(filename) ==
    /\ files' = [files EXCEPT ![filename] = pickle_dump(collatz_tree, paths)]
    /\ saved' = [saved EXCEPT ![filename] = <<collatz_tree, paths>>]
    /\ UNCHANGED <<collatz_tree, paths>>
    /\ Called("save_list", filename, None)

\* mutant: the except branch starts over with the maps of a new CollatzTree
load_list_reset(filename) ==
    IF files[filename] = NoFile
    THEN /\ collatz_tree' = << <<1, 4>> >>
         /\ paths' = << <<1, <<1>> >> >>
         /\ UNCHANGED <<files, saved>>
         /\ Called("load_list", filename, NotFoundMessage)
    ELSE /\ collatz_tree' = pickle_load(files[filename])[1]
         /\ paths' = pickle_load(files[filename])[2]
         /\ UNCHANGED <<files, saved>>
         /\ Called("load_list", filename, Loaded)

\* mutant: only collatz_tree is taken from the file (the tuple of the old
\* format, collatz_tree and steps_to_one), paths keeps what it held
load_list_keep_paths(filename) ==
    IF files[filename] = NoFile
    THEN /\ UNCHANGED <<collatz_tree, paths, files, saved>>
         /\ Called("load_list", filename, NotFoundMessage)
    ELSE /\ collatz_tree' = pickle_load(files[filename])[1]
         /\ UNCHANGED <<paths, files, saved>>
         /\ Called("load_list", filename, Loaded)

load_list(filename) ==
    IF files[filename] = NoFile
    THEN /\ UNCHANGED <<collatz_tree, paths, files, saved>>
         /\ Called("load_list", filename, NotFoundMessage)
    ELSE /\ collatz_tree' = pickle_load(files[filename])[1]
         /\ paths' = pickle_load(files[filename])[2]
         /\ UNCHANGED <<files, saved>>
         /\ Called("load_list", filename, Loaded)

\* the cache operations, persistence aside
Next ==
    \/ \E n \in NumArgs : add(n)
    \/ \E n \in NumArgs : fill_path(n)
    \/ \E n \in NumArgs : get_path(n)
    \/ get_longest_path
    \/ fill_all_paths
    \/ \E n \in StepsArgs : get_steps_to_one(n)
    \/ \E n \in FillArgs : fill(n)

Spec == Init /\ [][Next]_vars

\* the cache with its pickle file persistence
NextIO ==
    \/ \E n \in IOArgs : add(n)
    \/ \E n \in IOArgs : fill_path(n)
    \/ \E f \in FileNames : save_list(f)
    \/ \E f \in FileNames : load_list(f)

SpecIO == Init /\ [][NextIO]_vars

\* the cache called with numbers whose sequences tie in length
NextAny ==
    \/ \E n \in AnyArgs : add(n)
    \/ \E n \in AnyArgs : fill(n)
    \/ \E n \in AnyArgs : get_path(n)
    \/ \E n \in AnyArgs : get_steps_to_one(n)

SpecAny == Init /\ [][NextAny]_vars

NextTie ==
    \/ \E n \in TieArgs : fill_path(n)
    \/ get_longest_path

SpecTie == Init /\ [][NextTie]_vars

(***************************************************************************)
(* Properties                                                              *)
(***************************************************************************)

\* C1 (cache transparency): the list get_path(n) returns is the Collatz
\* sequence from n down to 1, the one the uncached collatz(n) produces, and it
\* is the memoized entry of n.
C1_CacheTransparency ==
    op = "get_path" =>
        /\ ret = collatz(arg)
        /\ DictHas(paths, arg)
        /\ DictGet(paths, arg) = ret

\* get_path(3) has returned the eight numbers from 3 down to 1
C1_Witness ==
    /\ op = "get_path"
    /\ arg = 3
    /\ Len(ret) = 8
    /\ ret[2] = 10

\* C2 as stated (tail sharing for every key, key 1 included): for every key n
\* of paths whose successor collatz_tree[n] has a path too, paths[n] without
\* its first element is paths[collatz_tree[n]].
C2_TailSharingAllKeys ==
    \A i \in 1..Len(paths) :
        LET n == paths[i][1]
        IN  (DictHas(collatz_tree, n) /\ DictHas(paths, DictGet(collatz_tree, n)))
                => Tail(paths[i][2]) = DictGet(paths, DictGet(collatz_tree, n))

\* C2 amended (tail sharing for every key other than 1): for every key n > 1
\* of paths, n is a key of collatz_tree and, when its successor has a path,
\* paths[n] is n followed by that path.
C2_TailSharing ==
    \A i \in 1..Len(paths) :
        LET n == paths[i][1]
        IN  n # 1 =>
                /\ DictHas(collatz_tree, n)
                /\ DictHas(paths, DictGet(collatz_tree, n)) =>
                       paths[i][2] = <<n>> \o DictGet(paths, DictGet(collatz_tree, n))

\* the path of 6 was memoized after the path of its successor 3: it was spliced
C2_Witness ==
    /\ DictHas(paths, 3)
    /\ DictHas(paths, 6)
    /\ DictIndex(paths, 3) < DictIndex(paths, 6)
    /\ DictGet(collatz_tree, 6) = 3

\* C3 (longest sequence): the list get_longest_path returns is an entry of
\* paths and no entry of paths is longer.
C3_LongestSequence ==
    op = "get_longest_path" =>
        /\ \E i \in 1..Len(paths) : paths[i][2] = ret
        /\ \A i \in 1..Len(paths) : Len(paths[i][2]) <= Len(ret)

\* get_longest_path has returned the nine numbers from 6 down to 1, although
\* the path of 1 and others come before it in paths
C3_Witness ==
    /\ op = "get_longest_path"
    /\ Len(ret) = 9
    /\ ret[1] = 6
    /\ DictIndex(paths, 6) > 2

\* one step keeps every key of both dicts with its value, keeps 1 -> 4 and
\* 1 -> [1], and does not make collatz_tree shorter
Grows ==
    /\ \/ collatz_tree' = collatz_tree
       \/ \A i \in 1..Len(collatz_tree) :
              /\ DictHas(collatz_tree', collatz_tree[i][1])
              /\ DictGet(collatz_tree', collatz_tree[i][1]) = collatz_tree[i][2]
    /\ \/ paths' = paths
       \/ \A i \in 1..Len(paths) :
              /\ DictHas(paths', paths[i][1])
              /\ DictGet(paths', paths[i][1]) = paths[i][2]
    /\ Len(collatz_tree') >= Len(collatz_tree)
    /\ DictHas(collatz_tree', 1) /\ DictGet(collatz_tree', 1) = 4
    /\ DictHas(paths', 1) /\ DictGet(paths', 1) = <<1>>

\* C4 (monotonic growth): no operation other than load removes a key of
\* collatz_tree or paths or changes the value of an existing key, and
\* len(collatz_tree) never decreases.
C4_MonotonicGrowth == [][Grows]_vars

\* both dicts have grown by a whole chain and fill_path was the last call
C4_Witness ==
    /\ op = "fill_path"
    /\ Len(collatz_tree) >= 8
    /\ Len(paths) >= 8

\* C5 (idempotence): add(n) or fill_path(n) called right after the same call
\* leaves collatz_tree and paths as the first call left them.
C5_Idempotence ==
    [][(repeat' /\ op' \in {"add", "fill_path"}) =>
           (collatz_tree' = collatz_tree /\ paths' = paths)]_vars

\* fill_path(3) was called twice in a row, and the chain of 3 is memoized
C5_Witness ==
    /\ repeat
    /\ op = "fill_path"
    /\ arg = 3
    /\ DictHas(paths, 10)

\* C6 (chain closure): after add(n), n and every number of its Collatz chain
\* down to 1 are keys of collatz_tree; and every key k of collatz_tree maps to
\* k/2 if k is even, to 3k+1 if k is odd.
C6_ChainClosure ==
    /\ op = "add" =>
           \A j \in 1..Len(collatz(arg)) : DictHas(collatz_tree, collatz(arg)[j])
    /\ \A i \in 1..Len(collatz_tree) :
           collatz_tree[i][2] = IF collatz_tree[i][1] % 2 = 0
                                THEN collatz_tree[i][1] \div 2
                                ELSE 3 * collatz_tree[i][1] + 1

\* add(3) has returned, with 4 added before 3: its loop stopped at a known key
C6_Witness ==
    /\ op = "add"
    /\ arg = 3
    /\ DictHas(collatz_tree, 4)
    /\ DictIndex(collatz_tree, 4) < DictIndex(collatz_tree, 3)

\* C7 (fill): after fill(n), every i in 1..n is a key of collatz_tree, and so
\* is every number on the chain of every such i.
C7_EnsureChain ==
    op = "fill" =>
        \A i \in 1..arg :
            /\ DictHas(collatz_tree, i)
            /\ \A j \in 1..Len(collatz(i)) : DictHas(collatz_tree, collatz(i)[j])

\* fill(4) has returned and has added 3 after 4, with the intermediate 16
C7_Witness ==
    /\ op = "fill"
    /\ arg = 4
    /\ DictHas(collatz_tree, 16)
    /\ DictIndex(collatz_tree, 4) < DictIndex(collatz_tree, 3)

\* C8 (fill_all_paths is complete): after fill_all_paths, every key of
\* collatz_tree has a path and the two dicts have the same keys.
C8_FillAllComplete ==
    op = "fill_all_paths" => DictKeys(paths) = DictKeys(collatz_tree)

\* fill_all_paths has returned after 4 then 3 were added: it filled two chains
C8_Witness ==
    /\ op = "fill_all_paths"
    /\ ~repeat
    /\ Len(paths) >= 8
    /\ DictIndex(paths, 4) < DictIndex(paths, 3)

\* C9 (stopping time): get_steps_to_one(n) returns len(paths[n]) - 1, the
\* number of Collatz steps from n to 1, with n added and filled; it is 8 for
\* 6 and 0 for 1.
C9_StoppingTime ==
    op = "get_steps_to_one" =>
        /\ DictHas(collatz_tree, arg)
        /\ DictHas(paths, arg)
        /\ ret = Len(DictGet(paths, arg)) - 1
        /\ ret = Len(collatz(arg)) - 1
        /\ arg = 6 => ret = 8
        /\ arg = 1 => ret = 0

\* get_steps_to_one(6) has returned 8
C9_Witness ==
    /\ op = "get_steps_to_one"
    /\ arg = 6
    /\ ret = 8
    /\ DictHas(paths, 6)

\* C10 (load of a missing file): load_list on a name under which no file
\* exists reports it and leaves collatz_tree, paths and the files as they were.
C10_LoadMissing ==
    [][(op' = "load_list" /\ files[arg'] = NoFile) =>
           /\ ret' = NotFoundMessage
           /\ collatz_tree' = collatz_tree
           /\ paths' = paths
           /\ files' = files]_vars

\* load_list has reported a missing file while both dicts held a whole chain
C10_Witness ==
    /\ op = "load_list"
    /\ ret = NotFoundMessage
    /\ Len(collatz_tree) >= 8
    /\ Len(paths) >= 8

(***************************************************************************)
(* The command loop of src/collatz_menu.py, which drives one CollatzTree.  *)
(* A typed line is a sequence of characters.                               *)
(***************************************************************************)
DigitChars == {"0", "1", "2", "3"}
Chars == DigitChars \cup {"x"}
Texts == UNION {[1..k -> Chars] : k \in 1..MaxText}

\* int(text) succeeds on a line of digits and raises ValueError otherwise
IsInteger(text) == text # <<>> /\ \A i \in 1..Len(text) : text[i] \in DigitChars

DigitValue(c) == CASE c = "0" -> 0 [] c = "1" -> 1 [] c = "2" -> 2 [] c = "3" -> 3

RECURSIVE int_value(_)
int_value(text) ==
    IF text = <<>> THEN 0
    ELSE 10 * int_value(SubSeq(text, 1, Len(text) - 1)) + DigitValue(text[Len(text)])

\* the attributes class CollatzTree of src/collatz.py defines
Methods ==
    {"__init__", "__len__", "_info", "load_list", "save_list", "add", "fill_path",
     "get_path", "get_longest_path", "fill_all_paths", "get_steps_to_one",
     "_calculate_steps_to_one", "fill", "collatz"}

InvalidMessage == "Invalid input. Must be an integer."
NotRecognized == "Option not recognized:"

\* what a command records of the call it made
Returned(name, a, r) ==
    /\ op' = name
    /\ arg' = a
    /\ ret' = r
    /\ repeat' = (op = name /\ arg = a)

\* int() raised ValueError: the except clause reports it, the loop goes on
invalid_input(cmd) ==
    /\ ch' = cmd
    /\ loop' = "menu"
    /\ Returned("int", cmd, InvalidMessage)
    /\ UNCHANGED <<collatz_tree, steps_to_one, paths, verbose, files, saved>>

\* c_tree.<name> is no attribute of CollatzTree: AttributeError is raised, no
\* except clause catches it and the loop is left
attribute_error(cmd, name) ==
    /\ name \notin Methods
    /\ ch' = cmd
    /\ loop' = "AttributeError"
    /\ Returned(name, cmd, "AttributeError")
    /\ UNCHANGED <<collatz_tree, steps_to_one, paths, verbose, files, saved>>

menu_a(text) ==
    /\ loop = "menu"
    /\ IF ~IsInteger(text) THEN invalid_input("a")
       ELSE /\ "add" \in Methods
            /\ ch' = "a"
            /\ loop' = "menu"
            /\ collatz_tree' = add_tree(collatz_tree, int_value(text))
            /\ Returned("add", int_value(text), None)
            /\ UNCHANGED <<steps_to_one, paths, verbose, files, saved>>

menu_p(text) ==
    /\ loop = "menu"
    /\ IF ~IsInteger(text) THEN invalid_input("p")
       ELSE attribute_error("p", "get_sequence")

menu_f(text) ==
    /\ loop = "menu"
    /\ IF ~IsInteger(text) THEN invalid_input("f")
       ELSE /\ "fill" \in Methods
            /\ ch' = "f"
            /\ loop' = "menu"
            /\ collatz_tree' = fill_tree(collatz_tree, int_value(text))
            /\ Returned("fill", int_value(text), None)
            /\ UNCHANGED <<steps_to_one, paths, verbose, files, saved>>

menu_st(text) ==
    /\ loop = "menu"
    /\ IF ~IsInteger(text) THEN invalid_input("st")
       ELSE attribute_error("st", "stopping_time")

menu_l ==
    /\ loop = "menu"
    /\ "__len__" \in Methods
    /\ ch' = "l"
    /\ loop' = "menu"
    /\ Returned("__len__", 0, Len(collatz_tree))
    /\ UNCHANGED <<collatz_tree, steps_to_one, paths, verbose, files, saved>>

menu_v ==
    /\ loop = "menu"
    /\ ch' = "v"
    /\ loop' = "menu"
    /\ verbose' = ~verbose
    /\ UNCHANGED <<collatz_tree, steps_to_one, paths, files, saved, op, arg, ret, repeat>>

menu_ls ==
    /\ loop = "menu"
    /\ attribute_error("ls", "longest_sequence")

menu_fs ==
    /\ loop = "menu"
    /\ attribute_error("fs", "fill_sequences")

menu_s ==
    /\ loop = "menu"
    /\ "save_list" \in Methods
    /\ ch' = "s"
    /\ loop' = "menu"
    /\ files' = [files EXCEPT ![DEFAULT_FILENAME] = pickle_dump(collatz_tree, paths)]
    /\ saved' = [saved EXCEPT ![DEFAULT_FILENAME] = <<collatz_tree, paths>>]
    /\ Returned("save_list", DEFAULT_FILENAME, None)
    /\ UNCHANGED <<collatz_tree, steps_to_one, paths, verbose>>

menu_o ==
    /\ loop = "menu"
    /\ "load_list" \in Methods
    /\ ch' = "o"
    /\ loop' = "menu"
    /\ IF files[DEFAULT_FILENAME] = NoFile
       THEN /\ UNCHANGED <<collatz_tree, paths>>
            /\ Returned("load_list", DEFAULT_FILENAME, NotFoundMessage)
       ELSE /\ collatz_tree' = pickle_load(files[DEFAULT_FILENAME])[1]
            /\ paths' = pickle_load(files[DEFAULT_FILENAME])[2]
            /\ Returned("load_list", DEFAULT_FILENAME, Loaded)
    /\ UNCHANGED <<steps_to_one, verbose, files, saved>>

\* any other line but q: "Option not recognized"
menu_other(text) ==
    /\ loop = "menu"
    /\ ch' = text
    /\ loop' = "menu"
    /\ Returned("print", text, NotRecognized)
    /\ UNCHANGED <<collatz_tree, steps_to_one, paths, verbose, files, saved>>

\* q: no branch of the loop body is taken and the while condition ends the loop
menu_q ==
    /\ loop = "menu"
    /\ ch' = "q"
    /\ loop' = "quit"
    /\ UNCHANGED <<collatz_tree, steps_to_one, paths, verbose, files, saved,
                   op, arg, ret, repeat>>

NextMenu ==
    \/ \E text \in Texts : menu_a(text)
    \/ \E text \in Texts : menu_p(text)
    \/ \E text \in Texts : menu_f(text)
    \/ \E text \in Texts : menu_st(text)
    \/ menu_l
    \/ menu_v
    \/ menu_ls
    \/ menu_fs
    \/ menu_s
    \/ menu_o
    \/ \E text \in {"", "x", "t", "c"} : menu_other(text)
    \/ menu_q

SpecMenu == Init /\ [][NextMenu]_vars

\* C14 (the command loop is robust): after any commands and typed lines the
\* loop is back at its menu, or it has ended and the command was q.
C14_LoopRobust ==
    /\ loop \in {"menu", "quit"}
    /\ loop = "quit" => ch = "q"

\* C11 (save/load round trip): after load_list has read a file, collatz_tree
\* and paths are exactly the dicts, items and insertion order, that save_list
\* wrote to that file, whatever the two dicts held before the load.
C11_RoundTrip ==
    (op = "load_list" /\ ret = Loaded) =>
        /\ collatz_tree = saved[arg][1]
        /\ paths = saved[arg][2]

\* load_list has read the default file, saved when only the chain of 2 was
\* known, into a structure that had grown since (and was saved to the other
\* file): the load has discarded the chain of 3
C11_Witness ==
    /\ op = "load_list"
    /\ ret = Loaded
    /\ arg = DEFAULT_FILENAME
    /\ Len(collatz_tree) = 2
    /\ Len(paths) = 2
    /\ files[OtherFilename] # NoFile
    /\ Len(saved[OtherFilename][2]) >= 8

\* C12 (frame of add and fill): a call of add or fill leaves paths as it was
\* (and steps_to_one and the files too); only collatz_tree may change.
C12_AddFrame ==
    [][op' \in {"add", "fill"} =>
           (paths' = paths /\ steps_to_one' = steps_to_one /\ files' = files)]_vars

\* fill(4) has added two chains to collatz_tree while paths still holds only
\* the paths of 1 and 2
C12_Witness ==
    /\ op = "fill"
    /\ arg = 4
    /\ Len(collatz_tree) = 8
    /\ Len(paths) = 2

\* C13 (tie-break of the longest sequence): the list get_longest_path returns
\* is the first entry of paths, in the order the entries were memoized, that
\* has the maximal length: every entry memoized before it is shorter.
C13_TieBreak ==
    op = "get_longest_path" =>
        \E j \in 1..Len(paths) :
            /\ paths[j][2] = ret
            /\ \A i \in 1..Len(paths) : Len(paths[i][2]) <= Len(ret)
            /\ \A i \in 1..(j - 1) : Len(paths[i][2]) < Len(ret)

\* get_longest_path has returned the path of 32 while the path of 5, as long
\* and memoized later, is in paths too
C13_Witness ==
    /\ op = "get_longest_path"
    /\ ret[1] = 32
    /\ DictHas(paths, 5)
    /\ Len(DictGet(paths, 5)) = Len(ret)
    /\ DictIndex(paths, 32) < DictIndex(paths, 5)

\* C15 (early exit of add): add(n) for an n that is not a key yet appends to
\* collatz_tree exactly the entries k -> successor of k for the numbers k of
\* the sequence of n that come before the first number that was already a
\* key, rewrites no entry, and computes a successor for those numbers only.
C15_EarlyExit ==
    [][(op' = "add" /\ ~DictHas(collatz_tree, arg')) =>
           LET traj == collatz(arg')
               m == CHOOSE i \in 1..Len(traj) :
                        /\ DictHas(collatz_tree, traj[i])
                        /\ \A j \in 1..(i - 1) : ~DictHas(collatz_tree, traj[j])
           IN  /\ collatz_tree' =
                      collatz_tree \o [i \in 1..(m - 1) |-> <<traj[i], traj[i + 1]>>]
               /\ add_visited(collatz_tree, arg') = SubSeq(traj, 1, m - 1)]_vars

\* add(3) after add(4): the entries of 3, 10, 5, 16 and 8 were appended and
\* the loop stopped at 4, a key from the earlier call
C15_Witness ==
    /\ op = "add"
    /\ arg = 3
    /\ Len(collatz_tree) = 8
    /\ DictIndex(collatz_tree, 4) < DictIndex(collatz_tree, 3)
    /\ collatz_tree[Len(collatz_tree)] = <<8, 4>>

\* every number of every memoized path has its own entry, the rest of that
\* path from the number on
SuffixClosed ==
    \A k \in 1..Len(paths) :
        LET p == paths[k][2]
        IN  \A i \in 1..Len(p) :
                /\ DictHas(paths, p[i])
                /\ DictGet(paths, p[i]) = SubSeq(p, i, Len(p))

\* C16 (backfill, suffix closure): in every state each number that occurs in
\* a memoized path is itself a key of paths and its entry is the suffix of
\* that path starting at the number; and a fill_path call leaves the entries
\* that existed before it as they were.
C16_SuffixClosure ==
    /\ []SuffixClosed
    /\ [][op' = "fill_path" =>
              \/ paths' = paths
              \/ /\ Len(paths') > Len(paths)
                 /\ SubSeq(paths', 1, Len(paths)) = paths]_vars

\* fill_path(3) after the path of 4 was memoized: 16, a number first met
\* inside the path of 3, has its own entry
C16_Witness ==
    /\ op = "fill_path"
    /\ arg = 3
    /\ DictIndex(paths, 4) < DictIndex(paths, 3)
    /\ DictHas(paths, 16)
    /\ DictGet(paths, 16) = <<16, 8, 4, 2, 1>>
    /\ DictGet(paths, 3) = <<3, 10, 5, 16, 8, 4, 2, 1>>

\* C17 (no missing-key lookup): in every state reached by calls with positive
\* arguments the keys of paths are keys of collatz_tree, and a fill_path call,
\* for any argument of the runs or any key of collatz_tree without a memoized
\* path, finds in collatz_tree every number its forward walk looks up and ends
\* the walk by combining with a memoized path.
C17_NoMissingKey ==
    /\ DictKeys(paths) \subseteq DictKeys(collatz_tree)
    /\ \A n \in NumArgs \cup StepsArgs \cup DictKeys(collatz_tree) :
           \/ DictHas(paths, n)
           \/ walk_safe(add_tree(collatz_tree, n), paths, n)

\* fill_path(3) on a cache where only the path of 1 was memoized: the walk
\* looked up 3, 10, 5, 16, 8, 4 and 2 and combined with the path of 1
C17_Witness ==
    /\ op = "fill_path"
    /\ arg = 3
    /\ DictIndex(paths, 3) = 2
    /\ Len(paths) = 8
    /\ DictKeys(paths) = DictKeys(collatz_tree)

\* a dict as a mapping: its items without their insertion order
Items(d) == {d[i] : i \in 1..Len(d)}

\* <<collatz_tree, paths>> after fill_path(a) and then fill_path(b)
fill_path_twice(tree, ps, a, b) ==
    LET s1 == fill_path_state(tree, ps, a)
    IN  fill_path_state(s1[1], s1[2], b)

\* C18 (order independence): from every reachable state and for all positive
\* a and b, add(a); add(b) and add(b); add(a) give the same collatz_tree, and
\* fill_path(a); fill_path(b) and fill_path(b); fill_path(a) give the same
\* collatz_tree and the same paths, as mappings from keys to values.
C18_OrderIndependence ==
    \A a \in NumArgs : \A b \in StepsArgs :
        a < b =>
            /\ Items(add_tree(add_tree(collatz_tree, a), b))
                   = Items(add_tree(add_tree(collatz_tree, b), a))
            /\ LET ab == fill_path_twice(collatz_tree, paths, a, b)
                   ba == fill_path_twice(collatz_tree, paths, b, a)
               IN  /\ Items(ab[1]) = Items(ba[1])
                   /\ Items(ab[2]) = Items(ba[2])

\* fill_path(3) and then fill_path(4) were called on a fresh cache: paths is
\* not the dict the other order builds, but holds the same items
C18_Witness ==
    /\ op = "fill_path"
    /\ arg = 4
    /\ DictHas(paths, 3)
    /\ DictIndex(paths, 3) = 2
    /\ DictIndex(paths, 4) = 7
    /\ paths # fill_path_twice(<<<<1, 4>>>>, <<<<1, <<1>>>>>>, 4, 3)[2]
    /\ Items(paths) = Items(fill_path_twice(<<<<1, 4>>>>, <<<<1, <<1>>>>>>, 4, 3)[2])

\* C19 (non-positive input): for n <= 0, add(n) and fill(n) change neither
\* dict and the loop of add computes no successor; get_path(n) and
\* get_steps_to_one(n) leave collatz_tree as it is, add to paths at most the
\* one entry n -> [n], and return [n] and 0: a path that does not end in 1,
\* under a key of paths that is no key of collatz_tree.
C19_NonPositive ==
    [][/\ (op' \in {"add", "fill"} /\ arg' <= 0) =>
              /\ collatz_tree' = collatz_tree
              /\ paths' = paths
              /\ add_visited(collatz_tree, arg') = <<>>
       /\ (op' \in {"get_path", "get_steps_to_one"} /\ arg' <= 0) =>
              /\ collatz_tree' = collatz_tree
              /\ paths' = IF DictHas(paths, arg') THEN paths
                          ELSE Append(paths, <<arg', <<arg'>>>>)
              /\ ret' = IF op' = "get_path" THEN <<arg'>> ELSE 0
              /\ DictGet(paths', arg')[Len(DictGet(paths', arg'))] # 1
              /\ ~DictHas(collatz_tree', arg')]_vars

\* get_steps_to_one(-1) has returned 0 on a cache that holds the chain of 2:
\* -1 is a key of paths with the path [-1] and no key of collatz_tree
C19_Witness ==
    /\ op = "get_steps_to_one"
    /\ arg = 0 - 1
    /\ ret = 0
    /\ DictHas(collatz_tree, 2)
    /\ ~DictHas(collatz_tree, 0 - 1)
    /\ paths[Len(paths)] = <<0 - 1, <<0 - 1>>>>

\* C20 (frame of path filling on keys of collatz_tree): fill_all_paths,
\* get_longest_path and fill_path(n) for an n that is a key of collatz_tree
\* leave collatz_tree as it was; the loop of fill_all_paths takes each key of
\* collatz_tree once, in the order of the dict.
C20_FillFrame ==
    [][/\ (\/ op' \in {"fill_all_paths", "get_longest_path"}
           \/ (op' = "fill_path" /\ DictHas(collatz_tree, arg')))
              => collatz_tree' = collatz_tree
       /\ op' \in {"fill_all_paths", "get_longest_path"}
              => fill_all_visited(collatz_tree, paths, 1)
                     = [i \in 1..Len(collatz_tree) |-> collatz_tree[i][1]]]_vars

\* fill_all_paths on a cache that holds the chains of 4 and 3: every key has
\* its path, memoized in the order of the keys
C20_Witness ==
    /\ op = "fill_all_paths"
    /\ Len(collatz_tree) = 8
    /\ DictIndex(collatz_tree, 4) < DictIndex(collatz_tree, 3)
    /\ [i \in 1..Len(paths) |-> paths[i][1]]
           = [i \in 1..Len(collatz_tree) |-> collatz_tree[i][1]]

====
